---- MODULE Spec2Model ----
(***************************************************************************)
(* The Gantt chart renderer (public/js/gantt.js): one GanttChart object    *)
(* and the three display regions it fills.                                 *)
(*                                                                         *)
(* Representation.                                                         *)
(*  - A JS Date at local midnight is its calendar day number (days since   *)
(*    1970-01-01); getTime gives its timestamp in hours, one hour earlier  *)
(*    while daylight saving is in effect.                                  *)
(*  - A date string YYYY-MM-DD is the record [y, m, d] of its numbers.     *)
(*  - dayWidth = availableWidth / totalDays is the exact fraction          *)
(*    [num, den]; every x coordinate and width is a fraction over the same *)
(*    denominator and is kept as its numerator (x pixels = x.num / den).   *)
(*    y coordinates are whole pixels.                                      *)
(*  - Task ids are pairs <<g, t>>, group ids numbers; names and effort     *)
(*    labels pass through the renderer unread and are left out.            *)
(*  - Indices kept in rows (groupIdx, taskIdx, rowIndex) are 0-based as in *)
(*    the source; taskMap holds the position of the row in this.rows, so   *)
(*    that the visibleY written by renderSVG is seen through taskMap.      *)
(*  - Arithmetic on pixels is exact: the rounding of IEEE doubles is not   *)
(*    represented.                                                         *)
(*  - setupScrollSync adds scroll listeners and touches neither the chart  *)
(*    nor the rendered elements; the operator render leaves it out and the *)
(*    page (SpecPage, SpecScroll) counts the listeners it adds.            *)
(***************************************************************************)
EXTENDS Integers, Sequences, FiniteSets, TLC

VARIABLES chart, dom, rendered

\* the page around the chart: the charts of earlier loads, the chart whose
\* render is displayed, the window, the pending timers, the scroll wiring
VARIABLES stale, owner, viewport, timers, idle, handlers, scroll, scrollQueue, lastOp

\* a use of daysBetween and dateToX; a request to POST /api/chat; the chat panel
VARIABLES calc, srv, chat

ganttVars == <<chart, dom, rendered>>

pageVars == <<stale, owner, viewport, timers, idle, handlers, scroll, scrollQueue, lastOp>>

otherVars == <<calc, srv, chat>>

vars == <<chart, dom, rendered, stale, owner, viewport, timers, idle, handlers, scroll,
          scrollQueue, lastOp, calc, srv, chat>>

\* ------------------------------------------------------------------------
\* Program constants

ROW_HEIGHT == 44

TIMELINE_HEADER_H == 48

ELBOW == 10

\* 86400000 ms, in the model's time unit (hours)
MsPerDay == 24

\* the pixel density below which a tick granularity is too fine
MinTickPx == 40

\* minimum drawn width of a bar
MinBarWidth == 4

\* window.innerWidth - 560 when the right panel has no width yet
LeftPanelWidth == 560

\* the value of a field that was never assigned
Undefined == -1

months == <<"Jan", "Feb", "Mar", "Apr", "May", "Jun", "Jul", "Aug", "Sep", "Oct", "Nov", "Dec">>

\* ------------------------------------------------------------------------
\* The Date object

Max(a, b) == IF a >= b THEN a ELSE b

Min(a, b) == IF a <= b THEN a ELSE b

\* floor division and modulus for any sign of a (b > 0)
FloorDiv(a, b) == IF a >= 0 THEN a \div b ELSE -((-a + b - 1) \div b)

\* new Date(y, monthIndex, d): the day number of a calendar date; month
\* indices outside 0..11 carry into the year as the Date constructor does
NewDate(y, monthIndex, d) ==
    LET yy  == y + FloorDiv(monthIndex, 12)
        m   == (monthIndex - 12 * FloorDiv(monthIndex, 12)) + 1
        yr  == IF m <= 2 THEN yy - 1 ELSE yy
        era == FloorDiv(yr, 400)
        yoe == yr - era * 400
        mp  == IF m > 2 THEN m - 3 ELSE m + 9
        doy == (153 * mp + 2) \div 5 + d - 1
        doe == yoe * 365 + yoe \div 4 - yoe \div 100 + doy
    IN  era * 146097 + doe - 719468

\* the calendar fields of a day number: getFullYear, getMonth + 1, getDate
\* (era, day of era, year of era, day of year from 1 March, month from March)
CivilFields(era, yoe, doy, mp) ==
    [y |-> yoe + era * 400 + (IF mp < 10 THEN 0 ELSE 1),
     m |-> IF mp < 10 THEN mp + 3 ELSE mp - 9,
     d |-> doy - (153 * mp + 2) \div 5 + 1]

CivilFromDoy(era, yoe, doy) == CivilFields(era, yoe, doy, (5 * doy + 2) \div 153)

CivilFromYoe(era, doe, yoe) ==
    CivilFromDoy(era, yoe, doe - (365 * yoe + yoe \div 4 - yoe \div 100))

CivilFromDoe(era, doe) ==
    CivilFromYoe(era, doe,
        (doe - doe \div 1460 + doe \div 36524 - doe \div 146096) \div 365)

CivilFromEra(z, era) == CivilFromDoe(era, z - era * 146097)

CivilFromDays(n) == CivilFromEra(n + 719468, FloorDiv(n + 719468, 146097))

getFullYear(date) == CivilFromDays(date).y

getMonth(date) == CivilFromDays(date).m - 1

getDate(date) == CivilFromDays(date).d

\* 0 = Sunday; 1970-01-01 was a Thursday
getDay(date) == (date + 4) % 7

\* daylight saving of the local zone: one hour, from April to October
DstShift(date) == IF getMonth(date) \in 3..9 THEN 1 ELSE 0

\* the timestamp of local midnight of a day, in hours
getTime(date) == date * MsPerDay - DstShift(date)

\* Math.floor in the place of Math.round
MathFloor(num, den) == FloorDiv(num, den)

\* Math.round: the nearest integer, halves upwards
MathRound(num, den) == FloorDiv(2 * num + den, 2 * den)

parseDate(str) == NewDate(str.y, str.m - 1, str.d)

\* toLocaleDateString('en-US', {month: 'short', day: 'numeric', year: 'numeric'})
toLocaleDateString(d) == [month |-> months[d.m], day |-> d.d, year |-> d.y]

formatDisplay(str) == toLocaleDateString(CivilFromDays(parseDate(str)))

daysBetween(a, b) == MathRound(getTime(b) - getTime(a), MsPerDay)

\* the numerator of the x coordinate, over dayWidth.den
dateToX(date, projectStart, dayWidth) == daysBetween(projectStart, date) * dayWidth.num

\* n whole pixels as a numerator over dayWidth.den
Px(this, n) == n * this.dayWidth.den

\* ------------------------------------------------------------------------
\* class GanttChart

\* the group or task a row wraps (row.data)
RowData(this, row) ==
    IF row.type = "phase"
    THEN this.data.groups[row.groupIdx + 1]
    ELSE this.data.groups[row.groupIdx + 1].tasks[row.taskIdx + 1]

\* the fields the constructor sets, from the two parsed dates
NewChart(data, projectStart, projectEnd) ==
    [data            |-> data,
     projectStart    |-> projectStart,
     projectEnd      |-> projectEnd,
     totalDays       |-> daysBetween(projectStart, projectEnd) + 1,
     dayWidth        |-> [num |-> 1, den |-> 1],
     svgWidth        |-> 0,
     rows            |-> << >>,
     taskMap         |-> << >>,
     collapsedGroups |-> {}]

constructor(data) == NewChart(data, parseDate(data.project.start), parseDate(data.project.end))

\* GroupRows with the task rows of a collapsed group left visible
GroupRowsAllVisible(this, gi, rowIndex) ==
    << [type |-> "phase", groupIdx |-> gi - 1, taskIdx |-> Undefined,
        id |-> this.data.groups[gi].id,
        rowIndex |-> rowIndex, visible |-> TRUE, visibleY |-> Undefined] >>
    \o [ti \in 1..Len(this.data.groups[gi].tasks) |->
           [type |-> "task", groupIdx |-> gi - 1, taskIdx |-> ti - 1,
            id |-> this.data.groups[gi].tasks[ti].id, rowIndex |-> rowIndex + ti,
            visible |-> TRUE, visibleY |-> Undefined]]

\* the rows of one group: its phase row, then one row per task
GroupRows(this, gi, rowIndex) ==
    LET group     == this.data.groups[gi]
        collapsed == group.id \in this.collapsedGroups
    IN  << [type |-> "phase", groupIdx |-> gi - 1, taskIdx |-> Undefined, id |-> group.id,
            rowIndex |-> rowIndex, visible |-> TRUE, visibleY |-> Undefined] >>
        \o [ti \in 1..Len(group.tasks) |->
               [type |-> "task", groupIdx |-> gi - 1, taskIdx |-> ti - 1,
                id |-> group.tasks[ti].id, rowIndex |-> rowIndex + ti,
                visible |-> ~collapsed, visibleY |-> Undefined]]

RECURSIVE buildRowsFrom(_, _, _)
buildRowsFrom(this, gi, rows) ==
    IF gi > Len(this.data.groups)
    THEN rows
    ELSE buildRowsFrom(this, gi + 1, rows \o GroupRows(this, gi, Len(rows)))

\* buildRows without the reset of this.rows
buildRowsAppending(this) == [this EXCEPT !.rows = buildRowsFrom(this, 1, this.rows)]

buildRows(this) == [this EXCEPT !.rows = buildRowsFrom(this, 1, << >>)]

\* taskMap[id] is the last task row with that id
buildTaskMap(this) ==
    LET ids == {this.rows[i].id : i \in {j \in 1..Len(this.rows) : this.rows[j].type = "task"}}
        last(id) == CHOOSE i \in 1..Len(this.rows) :
                        /\ this.rows[i].type = "task"
                        /\ this.rows[i].id = id
                        /\ \A j \in (i + 1)..Len(this.rows) :
                              ~(this.rows[j].type = "task" /\ this.rows[j].id = id)
    IN  [this EXCEPT !.taskMap = [id \in ids |-> last(id)]]

\* ---- adaptive tick dates

setDate(date, d) == NewDate(getFullYear(date), getMonth(date), d)

setMonth(date, monthIndex) == NewDate(getFullYear(date), monthIndex, getDate(date))

QuarterNames == <<"Q1", "Q2", "Q3", "Q4">>

qMonths == <<0, 3, 6, 9>>

\* months[d.getMonth()] and a number: the two parts of every tick label
Label(text, n) == [text |-> text, n |-> n]

RECURSIVE weeklyTicks(_, _, _)
weeklyTicks(this, cur, ticks) ==
    IF getTime(cur) <= getTime(this.projectEnd)
    THEN weeklyTicks(this, setDate(cur, getDate(cur) + 7),
             Append(ticks, [date |-> cur,
                            label |-> Label(months[getMonth(cur) + 1], getDate(cur))]))
    ELSE ticks

RECURSIVE monthlyTicks(_, _, _)
monthlyTicks(this, cur, ticks) ==
    IF getTime(cur) <= getTime(this.projectEnd)
    THEN monthlyTicks(this, setMonth(cur, getMonth(cur) + 1),
             Append(ticks, [date |-> cur,
                            label |-> Label(months[getMonth(cur) + 1], getFullYear(cur))]))
    ELSE ticks

\* the quarter starts of the years y0..y1, in the order of the two loops
quarterStarts(y0, y1) ==
    [k \in 1..(IF y1 >= y0 THEN 4 * (y1 - y0 + 1) ELSE 0) |->
        [date  |-> NewDate(y0 + (k - 1) \div 4, qMonths[((k - 1) % 4) + 1], 1),
         label |-> Label(QuarterNames[((k - 1) % 4) + 1], y0 + (k - 1) \div 4)]]

\* line 197: d >= this.projectStart && d <= this.projectEnd
inProject(this, d) ==
    /\ getTime(d) >= getTime(this.projectStart)
    /\ getTime(d) <= getTime(this.projectEnd)

\* orFallback without the fallback tick
noFallback(this, ticks) == ticks

\* lines 203-205: the fallback tick when no quarter start is in range
orFallback(this, ticks) ==
    IF Len(ticks) = 0
    THEN << [date  |-> this.projectStart,
             label |-> Label(months[getMonth(this.projectStart) + 1],
                             getFullYear(this.projectStart))] >>
    ELSE ticks

quarterlyTicks(this) ==
    orFallback(this,
        SelectSeq(quarterStarts(getFullYear(this.projectStart), getFullYear(this.projectEnd)),
                  LAMBDA t : inProject(this, t.date)))

\* pxPerWeekEnough with > for >=
pxPerWeekMoreThanEnough(this) == this.dayWidth.num * 7 > MinTickPx * this.dayWidth.den

\* pxPerWeek >= 40 and pxPerMonth >= 40, over the denominator of dayWidth
pxPerWeekEnough(this) == this.dayWidth.num * 7 >= MinTickPx * this.dayWidth.den

pxPerMonthEnough(this) == this.dayWidth.num * 30 >= MinTickPx * this.dayWidth.den

getTickDates(this) ==
    IF pxPerWeekEnough(this)
    THEN weeklyTicks(this,
             setDate(this.projectStart,
                     getDate(this.projectStart) - ((getDay(this.projectStart) + 6) % 7)),
             << >>)
    ELSE IF pxPerMonthEnough(this)
    THEN monthlyTicks(this,
             NewDate(getFullYear(this.projectStart), getMonth(this.projectStart), 1), << >>)
    ELSE quarterlyTicks(this)

\* the x at which a tick is drawn: Math.max(0, dateToX(tick.date, ...))
tickX(this, tick) == Max(0, dateToX(tick.date, this.projectStart, this.dayWidth))

\* ---- left panel and timeline header

buildLeftRow(this, row) ==
    [rowId           |-> RowData(this, row).id,
     isPhase         |-> row.type = "phase",
     isCollapsed     |-> ~row.visible,
     toggleCollapsed |-> row.type = "phase" /\ RowData(this, row).id \in this.collapsedGroups,
     start           |-> formatDisplay(RowData(this, row).start),
     end             |-> formatDisplay(RowData(this, row).end),
     click           |-> row.type = "phase"]

renderLeftPanel(this) == [i \in 1..Len(this.rows) |-> buildLeftRow(this, this.rows[i])]

\* the line and the text of every tick (lines 221-236)
headerTicks(this, ticks) ==
    [i \in 1..Len(ticks) |-> [x |-> tickX(this, ticks[i]), label |-> ticks[i].label]]

renderTimelineHeader(this) ==
    [width  |-> this.svgWidth,
     height |-> TIMELINE_HEADER_H,
     ticks  |-> headerTicks(this, getTickDates(this))]

updateProjectHeader(this) ==
    [start |-> formatDisplay(this.data.project.start), end |-> formatDisplay(this.data.project.end)]

\* ---- bars

\* the rect of a bar from x and endX; inset is 8 for a phase, 10 for a task
barRect(this, type, id, x, endX, y, inset) ==
    [type |-> type, id |-> id, x |-> x, y |-> y + inset,
     width |-> Max(endX - x, Px(this, MinBarWidth)), height |-> ROW_HEIGHT - 2 * inset]

buildPhaseBar(this, row, y) ==
    barRect(this, "phase", RowData(this, row).id,
        dateToX(parseDate(RowData(this, row).start), this.projectStart, this.dayWidth),
        dateToX(parseDate(RowData(this, row).end), this.projectStart, this.dayWidth)
            + this.dayWidth.num,
        y, 8)

buildTaskBar(this, row, y) ==
    barRect(this, "task", RowData(this, row).id,
        dateToX(parseDate(RowData(this, row).start), this.projectStart, this.dayWidth),
        dateToX(parseDate(RowData(this, row).end), this.projectStart, this.dayWidth)
            + this.dayWidth.num,
        y, 10)

\* ---- dependency arrows

\* arrowPath with the clear case decided by < instead of <=
arrowPathStrict(fromX, fromY, toX, toY, visibleY, elbow) ==
    IF fromX + elbow * 2 < toX
    THEN <<"M", fromX, fromY, "H", fromX + elbow, "V", toY, "H", toX>>
    ELSE <<"M", fromX, fromY, "H", fromX + elbow,
           "V", IF fromY < toY THEN visibleY + ROW_HEIGHT + 4 ELSE visibleY - 4,
           "H", Max(elbow, toX - elbow),
           "V", toY, "H", toX>>

\* lines 390-403: the path's d attribute, as the tokens of the string built
arrowPath(fromX, fromY, toX, toY, visibleY, elbow) ==
    IF fromX + elbow * 2 <= toX
    THEN <<"M", fromX, fromY, "H", fromX + elbow, "V", toY, "H", toX>>
    ELSE <<"M", fromX, fromY, "H", fromX + elbow,
           "V", IF fromY < toY THEN visibleY + ROW_HEIGHT + 4 ELSE visibleY - 4,
           "H", Max(elbow, toX - elbow),
           "V", toY, "H", toX>>

buildDependencyArrow(this, fromRow, toRow) ==
    arrowPath(
        dateToX(parseDate(RowData(this, fromRow).end), this.projectStart, this.dayWidth)
            + this.dayWidth.num,
        fromRow.visibleY + ROW_HEIGHT \div 2,
        dateToX(parseDate(RowData(this, toRow).start), this.projectStart, this.dayWidth),
        toRow.visibleY + ROW_HEIGHT \div 2,
        fromRow.visibleY,
        Px(this, ELBOW))

\* ---- SVG body

\* one pass of the row loop of renderSVG for a visible row (lines 278-303)
renderRow(this, acc, i, visibleIdx, y) ==
    [rows       |-> [acc.rows EXCEPT ![i].visibleY = y],
     stripes    |-> IF acc.rows[i].type = "task" /\ visibleIdx % 2 = 1
                    THEN Append(acc.stripes, y)
                    ELSE acc.stripes,
     separators |-> Append(acc.separators, y + ROW_HEIGHT),
     bars       |-> Append(acc.bars,
                       IF acc.rows[i].type = "phase"
                       THEN buildPhaseBar(this, acc.rows[i], y)
                       ELSE buildTaskBar(this, acc.rows[i], y))]

\* renderBarsFrom with visibleIdx advanced past the hidden rows too
RECURSIVE renderBarsCountingHidden(_, _, _, _)
renderBarsCountingHidden(this, i, visibleIdx, acc) ==
    IF i > Len(acc.rows)
    THEN acc
    ELSE IF ~acc.rows[i].visible
    THEN renderBarsCountingHidden(this, i + 1, visibleIdx + 1, acc)
    ELSE renderBarsCountingHidden(this, i + 1, visibleIdx + 1,
             renderRow(this, acc, i, visibleIdx, visibleIdx * ROW_HEIGHT))

\* the row loop of renderSVG (lines 276-304); acc holds the rows, whose
\* visibleY it assigns, and the elements appended to the bars group
RECURSIVE renderBarsFrom(_, _, _, _)
renderBarsFrom(this, i, visibleIdx, acc) ==
    IF i > Len(acc.rows)
    THEN acc
    ELSE IF ~acc.rows[i].visible
    THEN renderBarsFrom(this, i + 1, visibleIdx, acc)
    ELSE renderBarsFrom(this, i + 1, visibleIdx + 1,
             renderRow(this, acc, i, visibleIdx, visibleIdx * ROW_HEIGHT))

\* dependencyDrawn without the test of depRow.visible
dependencyResolves(this, depId) == depId \in DOMAIN this.taskMap

\* whether the dependency depId of a visible task row gets an arrow
\* (line 315: if (!depRow || !depRow.visible) continue)
dependencyDrawn(this, depId) ==
    /\ depId \in DOMAIN this.taskMap
    /\ this.rows[this.taskMap[depId]].visible

\* the arrows of one row, in the order of its dependsOn (lines 313-318)
RECURSIVE rowArrows(_, _, _, _)
rowArrows(this, row, k, arrows) ==
    IF k > Len(RowData(this, row).dependsOn)
    THEN arrows
    ELSE IF ~dependencyDrawn(this, RowData(this, row).dependsOn[k])
    THEN rowArrows(this, row, k + 1, arrows)
    ELSE rowArrows(this, row, k + 1,
             Append(arrows,
                [from |-> RowData(this, row).dependsOn[k],
                 to   |-> row.id,
                 d    |-> buildDependencyArrow(this,
                             this.rows[this.taskMap[RowData(this, row).dependsOn[k]]], row)]))

\* the dependency loop of renderSVG (lines 309-319)
RECURSIVE renderArrowsFrom(_, _, _)
renderArrowsFrom(this, i, arrows) ==
    IF i > Len(this.rows)
    THEN arrows
    ELSE IF this.rows[i].type # "task" \/ ~this.rows[i].visible
    THEN renderArrowsFrom(this, i + 1, arrows)
    ELSE renderArrowsFrom(this, i + 1, rowArrows(this, this.rows[i], 1, arrows))

\* lines 248-249
svgHeightOf(this) == Len(SelectSeq(this.rows, LAMBDA r : r.visible)) * ROW_HEIGHT

\* the chart, whose rows now carry visibleY, and the svg element
svgOf(this, that, ticks, body) ==
    [this |-> that,
     svg  |-> [width      |-> this.svgWidth,
               height     |-> svgHeightOf(this),
               grid       |-> [i \in 1..Len(ticks) |-> tickX(this, ticks[i])],
               stripes    |-> body.stripes,
               separators |-> body.separators,
               bars       |-> body.bars,
               arrows     |-> renderArrowsFrom(that, 1, << >>)]]

withBars(this, ticks, body) == svgOf(this, [this EXCEPT !.rows = body.rows], ticks, body)

renderSVG(this) ==
    withBars(this, getTickDates(this),
        renderBarsFrom(this, 1, 0,
            [rows |-> this.rows, stripes |-> << >>, separators |-> << >>, bars |-> << >>]))

\* rightEl.clientWidth || (window.innerWidth - 560)
availableWidthOf(clientWidth, innerWidth) ==
    IF clientWidth # 0 THEN clientWidth ELSE innerWidth - LeftPanelWidth

\* lines 99-100
fitWidth(this, availableWidth) ==
    [this EXCEPT !.dayWidth = [num |-> availableWidth, den |-> this.totalDays],
                 !.svgWidth = availableWidth]

\* lines 104-108, with the rows and the task map built
renderPanels(this, body) ==
    [this |-> body.this,
     dom  |-> [leftRows     |-> renderLeftPanel(this),
               header       |-> renderTimelineHeader(this),
               svg          |-> body.svg,
               projectDates |-> updateProjectHeader(this)]]

renderBuilt(this) == renderPanels(this, renderSVG(this))

\* render that forgets which groups are collapsed
renderExpanded(this, clientWidth, innerWidth) ==
    renderBuilt(buildTaskMap(buildRows(fitWidth([this EXCEPT !.collapsedGroups = {}],
                                                availableWidthOf(clientWidth, innerWidth)))))

render(this, clientWidth, innerWidth) ==
    renderBuilt(buildTaskMap(buildRows(fitWidth(this, availableWidthOf(clientWidth, innerWidth)))))

\* toggleGroup without the delete branch
collapseGroup(this, groupId, clientWidth, innerWidth) ==
    render([this EXCEPT !.collapsedGroups = this.collapsedGroups \cup {groupId}],
           clientWidth, innerWidth)

\* lines 158-165
toggleGroup(this, groupId, clientWidth, innerWidth) ==
    render([this EXCEPT !.collapsedGroups =
                IF groupId \in this.collapsedGroups
                THEN this.collapsedGroups \ {groupId}
                ELSE this.collapsedGroups \cup {groupId}],
           clientWidth, innerWidth)

\* ------------------------------------------------------------------------
\* The schedules and viewports the chart is given

MaxGroups == 2

MaxTasks == 2

\* a dependency id no task has
UnknownId == <<0, 0>>

\* the date string of the day off days after the day of str
DateAt(str, off) == CivilFromDays(parseDate(str) + off)

Days(range) == parseDate(range[2]) - parseDate(range[1]) + 1

Task(id, range, startOff, endOff, dependsOn) ==
    [id |-> id, start |-> DateAt(range[1], startOff), end |-> DateAt(range[1], endOff),
     dependsOn |-> dependsOn]

Group(id, range, tasks) ==
    [id |-> id, start |-> range[1], end |-> range[2], tasks |-> tasks]

Schedule(range, groups) ==
    [project |-> [start |-> range[1], end |-> range[2]], groups |-> groups]

Date(y, m, d) == [y |-> y, m |-> m, d |-> d]

\* -- a predecessor and a successor in every vertical arrangement; their
\*    dates are offsets from the project start
GeomRanges ==
    { <<Date(2024, 1, 1), Date(2024, 1, 31)>>,
      <<Date(2023, 11, 20), Date(2024, 7, 10)>>,
      <<Date(2024, 1, 3), Date(2024, 1, 3)>> }

\* <<start, end>> of the predecessor and the start of the successor
PredOffsets(range) ==
    LET last == Days(range) - 1
    IN  {p \in {<<4, 9>>, <<0, 4>>, <<4, 4>>, <<last, last>>, <<0, last>>} : p[2] <= last}

SuccOffsets(range) == {o \in {0, 7, 14} : o < Days(range)}

GeomLayouts == {"pred-succ", "succ-pred", "pred|succ", "succ|pred"}

GeomSchedule(range, layout, ps, pe, ss) ==
    LET pred(id) == Task(id, range, ps, pe, << >>)
        succ(id, p) == Task(id, range, ss, ss, <<p>>)
    IN  Schedule(range,
          CASE layout = "pred-succ" ->
                 << Group(1, range, << pred(<<1, 1>>), succ(<<1, 2>>, <<1, 1>>) >>) >>
            [] layout = "succ-pred" ->
                 << Group(1, range, << succ(<<1, 1>>, <<1, 2>>), pred(<<1, 2>>) >>) >>
            [] layout = "pred|succ" ->
                 << Group(1, range, << pred(<<1, 1>>) >>),
                    Group(2, range, << succ(<<2, 1>>, <<1, 1>>) >>) >>
            [] layout = "succ|pred" ->
                 << Group(1, range, << succ(<<1, 1>>, <<2, 1>>) >>),
                    Group(2, range, << pred(<<2, 1>>) >>) >>)

GeomSchedules ==
    UNION { { GeomSchedule(range, layout, p[1], p[2], ss) :
                layout \in GeomLayouts, p \in PredOffsets(range), ss \in SuccOffsets(range) } :
            range \in GeomRanges }

\* -- every shape of groups and tasks up to the bounds, with the tasks'
\*    dependencies following a pattern
ScenarioRange == <<Date(2024, 1, 1), Date(2024, 1, 31)>>

Shapes == UNION { [1..n -> 0..MaxTasks] : n \in 0..MaxGroups }

RECURSIVE TaskIdsFrom(_, _)
TaskIdsFrom(shape, g) ==
    IF g > Len(shape)
    THEN << >>
    ELSE [t \in 1..shape[g] |-> <<g, t>>] \o TaskIdsFrom(shape, g + 1)

DepPatterns == {"none", "chain", "all"}

DependsOn(shape, pattern, id) ==
    LET ids == TaskIdsFrom(shape, 1)
        k   == CHOOSE j \in 1..Len(ids) : ids[j] = id
    IN  CASE pattern = "none"  -> << >>
          [] pattern = "chain" -> IF k = 1 THEN <<UnknownId>> ELSE <<ids[k - 1]>>
          [] pattern = "all"   -> SelectSeq(ids, LAMBDA other : other # id) \o <<UnknownId>>

RowSchedule(shape, pattern) ==
    Schedule(ScenarioRange,
        [g \in 1..Len(shape) |->
            Group(g, ScenarioRange,
                [t \in 1..shape[g] |->
                    Task(<<g, t>>, ScenarioRange, 4, 9, DependsOn(shape, pattern, <<g, t>>))])])

RowSchedules == { RowSchedule(shape, pattern) : shape \in Shapes, pattern \in DepPatterns }

\* -- projects of many lengths and starting weekdays, with no group or one
TickStarts ==
    { Date(2024, 1, 1), Date(2023, 12, 31), Date(2024, 2, 10), Date(2024, 5, 15),
      Date(2023, 11, 20) }

TickLengths == {1, 7, 30, 31, 100, 234, 400}

TickSchedule(start, len, withGroup) ==
    LET range == <<start, DateAt(start, len - 1)>>
    IN  Schedule(range,
            IF withGroup
            THEN << Group(1, range, << Task(<<1, 1>>, range, 0, len - 1, << >>) >>) >>
            ELSE << >>)

TickSchedules ==
    { TickSchedule(start, len, withGroup) :
        start \in TickStarts, len \in TickLengths, withGroup \in BOOLEAN }

\* the right panel's clientWidth and the window's innerWidth at a render
Viewports ==
    { <<0, 500>>, <<0, 560>>, <<0, 5560>>, <<31, 591>>, <<40, 600>>, <<310, 870>>,
      <<1200, 1760>> }

RowViewports == { <<0, 500>>, <<310, 870>> }

GeomViewports == { <<0, 500>>, <<0, 5560>>, <<31, 591>>, <<310, 870>> }

\* ------------------------------------------------------------------------
\* The state machine: one chart, from its construction

EmptyDom ==
    [leftRows     |-> << >>,
     header       |-> [width |-> 0, height |-> 0, ticks |-> << >>],
     svg          |-> [width |-> 0, height |-> 0, grid |-> << >>, stripes |-> << >>,
                       separators |-> << >>, bars |-> << >>, arrows |-> << >>],
     projectDates |-> [start |-> "", end |-> ""]]

\* new GanttChart(data)  (loadGanttProject, line 453)
Load(schedules) ==
    /\ chart \in {constructor(data) : data \in schedules}
    /\ dom = EmptyDom
    /\ rendered = FALSE

\* the chart and the display regions after a render pass
Show(r) ==
    /\ chart' = r.this
    /\ dom' = r.dom
    /\ rendered' = TRUE

\* chart.render(): the first one of loadGanttProject (line 454) and the one
\* of the resize timer (line 460)
Render(clientWidth, innerWidth) == Show(render(chart, clientWidth, innerWidth))

\* a click on the phase row of groupId in the left panel (line 152)
ToggleGroup(groupId, clientWidth, innerWidth) ==
    /\ \E i \in 1..Len(dom.leftRows) : dom.leftRows[i].click /\ dom.leftRows[i].rowId = groupId
    /\ Show(toggleGroup(chart, groupId, clientWidth, innerWidth))

GroupIds == {chart.data.groups[g].id : g \in 1..Len(chart.data.groups)}

\* the scroll offsets of the left list, the timeline body and the header
NoScroll == [leftTop |-> 0, bodyTop |-> 0, bodyLeft |-> 0, headerLeft |-> 0]

\* lastOp is the last operation on the page other than the passing of time:
\* its kind, the chart it ran on, the group clicked, the timers it cancelled
\* the page of a single chart with no window event yet
PageAtRest ==
    /\ stale = << >>
    /\ owner = 1
    /\ viewport = <<0, 0>>
    /\ timers = << >>
    /\ idle = 0
    /\ handlers = 0
    /\ scroll = NoScroll
    /\ scrollQueue = << >>
    /\ lastOp = [op |-> "none", of |-> 0, group |-> 0, cancelled |-> 0]

\* no use of daysBetween under way, no request, the chat panel unopened
NoCalc == [a |-> 0, b |-> 0, w |-> 0, applied |-> FALSE]

NoRequest == [phase |-> "none"]

NoChat == [phase |-> "none"]

Elsewhere == calc = NoCalc /\ srv = NoRequest /\ chat = NoChat

\* geometry of bars and arrows
InitGeom == Load(GeomSchedules) /\ PageAtRest /\ Elsewhere

NextGeom ==
    \/ /\ \E v \in GeomViewports : Render(v[1], v[2])
       /\ UNCHANGED <<pageVars, otherVars>>
    \/ /\ \E v \in GeomViewports, g \in GroupIds : ToggleGroup(g, v[1], v[2])
       /\ UNCHANGED <<pageVars, otherVars>>

SpecGeom == InitGeom /\ [][NextGeom]_vars

\* rows, collapsing and the set of arrows
InitRows == Load(RowSchedules) /\ PageAtRest /\ Elsewhere

NextRows ==
    \/ /\ \E v \in RowViewports : Render(v[1], v[2])
       /\ UNCHANGED <<pageVars, otherVars>>
    \/ /\ \E v \in RowViewports, g \in GroupIds : ToggleGroup(g, v[1], v[2])
       /\ UNCHANGED <<pageVars, otherVars>>

SpecRows == InitRows /\ [][NextRows]_vars

\* the time axis
InitTicks == Load(TickSchedules) /\ PageAtRest /\ Elsewhere

NextTicks ==
    \/ /\ \E v \in Viewports : Render(v[1], v[2])
       /\ UNCHANGED <<pageVars, otherVars>>
    \/ /\ \E v \in Viewports, g \in GroupIds : ToggleGroup(g, v[1], v[2])
       /\ UNCHANGED <<pageVars, otherVars>>

SpecTicks == InitTicks /\ [][NextTicks]_vars

\* ------------------------------------------------------------------------
\* What the claims speak of, read off the schedule and the display regions

\* the <<group, task>> positions of the schedule's tasks
TaskPositions ==
    UNION { { <<g, t>> : t \in 1..Len(chart.data.groups[g].tasks) } :
            g \in 1..Len(chart.data.groups) }

TaskAt(p) == chart.data.groups[p[1]].tasks[p[2]]

HasTask(id) == \E p \in TaskPositions : TaskAt(p).id = id

TaskById(id) == TaskAt(CHOOSE p \in TaskPositions : TaskAt(p).id = id)

\* calendar days from the project's first day to the date of a date string
DayOf(str) == parseDate(str) - parseDate(chart.data.project.start)

TotalProjectDays == DayOf(chart.data.project.end) + 1

\* x of a date string and n pixels, as numerators over TotalProjectDays
XOf(str) == DayOf(str) * chart.svgWidth

Pixels(n) == n * TotalProjectDays

OneDay == chart.svgWidth

\* the position in the flattened list of the row of a task
RowOfTask(id) == CHOOSE i \in 1..Len(chart.rows) : chart.rows[i].type = "task" /\ chart.rows[i].id = id

\* the top of a visible row: the visible rows before it, one ROW_HEIGHT each
TopOfRow(i) == ROW_HEIGHT * Cardinality({j \in 1..(i - 1) : chart.rows[j].visible})

CentreOfTask(id) == TopOfRow(RowOfTask(id)) + ROW_HEIGHT \div 2

\* the points an SVG path visits: M x y moves, H x and V y draw to a point
RECURSIVE PointsFrom(_, _, _, _)
PointsFrom(d, i, x, y) ==
    IF i > Len(d)
    THEN << >>
    ELSE CASE d[i] = "M" -> << <<d[i + 1], d[i + 2]>> >> \o PointsFrom(d, i + 3, d[i + 1], d[i + 2])
           [] d[i] = "H" -> << <<d[i + 1], y>> >> \o PointsFrom(d, i + 2, d[i + 1], y)
           [] d[i] = "V" -> << <<x, d[i + 1]>> >> \o PointsFrom(d, i + 2, x, d[i + 1])

PathPoints(d) == PointsFrom(d, 1, 0, 0)

Arrows == {dom.svg.arrows[i] : i \in 1..Len(dom.svg.arrows)}

Bars == {dom.svg.bars[i] : i \in 1..Len(dom.svg.bars)}

FromX(a) == XOf(TaskById(a.from).end) + OneDay

FromY(a) == CentreOfTask(a.from)

ToX(a) == XOf(TaskById(a.to).start)

ToY(a) == CentreOfTask(a.to)

ClearCase(a) == FromX(a) + Pixels(2 * ELBOW) <= ToX(a)

\* just below the predecessor's row when the successor is below it, just
\* above it otherwise
DetourY(a) ==
    IF ToY(a) > FromY(a)
    THEN TopOfRow(RowOfTask(a.from)) + ROW_HEIGHT + 4
    ELSE TopOfRow(RowOfTask(a.from)) - 4

ThreeSegments(a) ==
    << <<FromX(a), FromY(a)>>,
       <<FromX(a) + Pixels(ELBOW), FromY(a)>>,
       <<FromX(a) + Pixels(ELBOW), ToY(a)>>,
       <<ToX(a), ToY(a)>> >>

FiveSegments(a) ==
    << <<FromX(a), FromY(a)>>,
       <<FromX(a) + Pixels(ELBOW), FromY(a)>>,
       <<FromX(a) + Pixels(ELBOW), DetourY(a)>>,
       <<Max(Pixels(ELBOW), ToX(a) - Pixels(ELBOW)), DetourY(a)>>,
       <<Max(Pixels(ELBOW), ToX(a) - Pixels(ELBOW)), ToY(a)>>,
       <<ToX(a), ToY(a)>> >>

\* the scenario of the spec: 2024-01-01..2024-01-31 drawn 310 px wide
InScenario ==
    /\ rendered
    /\ chart.data.project = [start |-> Date(2024, 1, 1), end |-> Date(2024, 1, 31)]
    /\ chart.svgWidth = 310

ScenarioArrow(a, succStart) ==
    /\ InScenario
    /\ TaskById(a.from).end = Date(2024, 1, 10)
    /\ TaskById(a.to).start = succStart

\* ------------------------------------------------------------------------
\* C1: every arrow drawn is the 3-segment route when fromX + 2*ELBOW <= toX
\* and the 5-segment detour otherwise, the detour running just below the
\* predecessor's row when the successor is below it and just above it
\* otherwise; in the scenario a successor starting 2024-01-15 gets the
\* 3-segment path and one starting 2024-01-08 the detour.
C1_ArrowPath ==
    \A a \in Arrows :
        /\ PathPoints(a.d) = IF ClearCase(a) THEN ThreeSegments(a) ELSE FiveSegments(a)
        /\ ScenarioArrow(a, Date(2024, 1, 15)) => Len(PathPoints(a.d)) = 4
        /\ ScenarioArrow(a, Date(2024, 1, 8)) => Len(PathPoints(a.d)) = 6

\* both scenario arrows are drawn, each in its own schedule; this is the
\* detour, with the successor below the predecessor
C1_Witness ==
    \E a \in Arrows :
        /\ ScenarioArrow(a, Date(2024, 1, 8))
        /\ ToY(a) > FromY(a)
        /\ Len(PathPoints(a.d)) = 6

\* the clear case at its edge: fromX + 2*ELBOW = toX
C1_WitnessClear ==
    \E a \in Arrows : FromX(a) + Pixels(2 * ELBOW) = ToX(a) /\ Len(PathPoints(a.d)) = 4

\* ------------------------------------------------------------------------
\* C2: the final segment of every arrow ends at toX and runs in the
\* increasing-x direction, in the clear case and in the detour alike.
\* Stated for the positive day widths only, for which the spec makes no
\* exception: what fails here fails for "any day width".
C2_FinalSegmentRightward ==
    chart.svgWidth > 0 =>
        \A a \in Arrows :
            /\ PathPoints(a.d)[Len(PathPoints(a.d))][1] = ToX(a)
            /\ PathPoints(a.d)[Len(PathPoints(a.d)) - 1][1] < ToX(a)

\* ------------------------------------------------------------------------
\* the bar drawn for the predecessor of an arrow
PredecessorBar(a) == CHOOSE b \in Bars : b.type = "task" /\ b.id = a.from

\* whether the segment from p to q has a point strictly inside the rect b
CrossesBar(p, q, b) ==
    /\ Max(p[1], q[1]) > b.x
    /\ Min(p[1], q[1]) < b.x + b.width
    /\ Max(p[2], q[2]) > b.y
    /\ Min(p[2], q[2]) < b.y + b.height

PathCrossesBar(pts, b) == \E k \in 1..(Len(pts) - 1) : CrossesBar(pts[k], pts[k + 1], b)

\* C3: in the detour case no point of the path lies strictly inside the
\* rectangle of the predecessor's own bar, and the detour's horizontal run
\* lies outside the y-span of the predecessor's row.  Stated for the
\* positive day widths only, as C2 is.
C3_DetourAvoidsPredecessorBar ==
    chart.svgWidth > 0 =>
        \A a \in Arrows :
            Len(PathPoints(a.d)) = 6 =>
                /\ ~PathCrossesBar(PathPoints(a.d), PredecessorBar(a))
                /\ \/ PathPoints(a.d)[3][2] < TopOfRow(RowOfTask(a.from))
                   \/ PathPoints(a.d)[3][2] > TopOfRow(RowOfTask(a.from)) + ROW_HEIGHT

\* ------------------------------------------------------------------------
\* the group or task a bar is drawn for
BarData(b) ==
    IF b.type = "task"
    THEN TaskById(b.id)
    ELSE chart.data.groups[CHOOSE g \in 1..Len(chart.data.groups) : chart.data.groups[g].id = b.id]

WithinProject(d) ==
    /\ DayOf(d.start) >= 0
    /\ DayOf(d.end) <= DayOf(chart.data.project.end)

\* C8: dayWidth is availableWidth / totalProjectDays and every bar whose
\* dates lie within the project is drawn inside [0, availableWidth]; in the
\* scenario dayWidth is 10 and a task starting 2024-01-05 has x = 40.
\* The bars are required to fit for the positive widths only, as in C2.
C8_TimelineFitsViewport ==
    rendered =>
        /\ chart.dayWidth.num * TotalProjectDays = chart.svgWidth * chart.dayWidth.den
        /\ dom.svg.width = chart.svgWidth
        /\ \A b \in Bars :
              chart.svgWidth > 0 /\ WithinProject(BarData(b)) =>
                  /\ b.x >= 0
                  /\ b.x + b.width <= chart.svgWidth * chart.dayWidth.den
        /\ InScenario =>
              /\ chart.dayWidth.num = 10 * chart.dayWidth.den
              /\ \A b \in Bars :
                    b.type = "task" /\ BarData(b).start = Date(2024, 1, 5) =>
                        b.x = 40 * chart.dayWidth.den



\* ------------------------------------------------------------------------
\* Rows, collapsing and the arrows drawn

\* the place in document order of the phase row of the g-th group
PhaseRowOf(g) == g + Cardinality({p \in TaskPositions : p[1] < g})

GroupCollapsed(g, collapsed) == chart.data.groups[g].id \in collapsed

\* rows is the schedule in document order with the task rows of the groups in
\* collapsed hidden
DocumentOrder(rows, collapsed) ==
    /\ Len(rows) = Len(chart.data.groups) + Cardinality(TaskPositions)
    /\ \A i \in 1..Len(rows) : rows[i].rowIndex = i - 1
    /\ \A g \in 1..Len(chart.data.groups) :
          /\ rows[PhaseRowOf(g)].type = "phase"
          /\ rows[PhaseRowOf(g)].groupIdx = g - 1
          /\ rows[PhaseRowOf(g)].id = chart.data.groups[g].id
          /\ rows[PhaseRowOf(g)].visible
    /\ \A p \in TaskPositions :
          /\ rows[PhaseRowOf(p[1]) + p[2]].type = "task"
          /\ rows[PhaseRowOf(p[1]) + p[2]].groupIdx = p[1] - 1
          /\ rows[PhaseRowOf(p[1]) + p[2]].taskIdx = p[2] - 1
          /\ rows[PhaseRowOf(p[1]) + p[2]].id = TaskAt(p).id
          /\ rows[PhaseRowOf(p[1]) + p[2]].visible <=> ~GroupCollapsed(p[1], collapsed)

\* C4: for every schedule and every collapsed-set buildRows lists, group by
\* group, a phase row then the group's task rows, with rowIndex 0..n-1; phase
\* rows are visible and a task row is hidden iff its group is collapsed.
C4_BuildRowsDocumentOrder ==
    /\ \A collapsed \in SUBSET GroupIds :
          DocumentOrder(buildRows([chart EXCEPT !.collapsedGroups = collapsed]).rows, collapsed)
    /\ rendered => DocumentOrder(chart.rows, chart.collapsedGroups)

\* a collapsed group with tasks beside an expanded one with tasks, rendered
C4_Witness ==
    /\ rendered
    /\ \E p \in TaskPositions : GroupCollapsed(p[1], chart.collapsedGroups)
    /\ \E p \in TaskPositions : ~GroupCollapsed(p[1], chart.collapsedGroups)
    /\ \E i \in 1..Len(chart.rows) : ~chart.rows[i].visible

TasksOf(g) == Len(chart.data.groups[g].tasks)

\* the rows of the groups other than the g-th are as visible in rows as in the chart
OthersUnchanged(g, rows) ==
    \A i \in 1..Len(rows) :
        rows[i].groupIdx # g - 1 => rows[i].visible = chart.rows[i].visible

\* once is the chart and the display after toggling the expanded g-th group
CollapsesGroup(g, once) ==
    /\ once.this.collapsedGroups = chart.collapsedGroups \cup {chart.data.groups[g].id}
    /\ once.dom.svg.height = dom.svg.height - TasksOf(g) * ROW_HEIGHT
    /\ once.this.rows[PhaseRowOf(g)].visible
    /\ \A t \in 1..TasksOf(g) : ~once.this.rows[PhaseRowOf(g) + t].visible
    /\ OthersUnchanged(g, once.this.rows)

\* twice is the chart and the display after toggling that group again
RestoresLayout(twice) ==
    /\ twice.this.collapsedGroups = chart.collapsedGroups
    /\ twice.this.rows = chart.rows
    /\ twice.dom.svg.height = dom.svg.height
    /\ twice.dom = dom

\* a click on the g-th phase row with the viewport as at the last render:
\* a clientWidth of 0 makes render take innerWidth - 560
ToggleOnce(g) ==
    toggleGroup(chart, chart.data.groups[g].id,
                chart.svgWidth, chart.svgWidth + LeftPanelWidth)

ToggleTwice(g) ==
    toggleGroup(ToggleOnce(g).this, chart.data.groups[g].id,
                chart.svgWidth, chart.svgWidth + LeftPanelWidth)

\* C5: toggling an expanded group lowers the SVG by its tasks x ROW_HEIGHT,
\* keeps its phase row visible and leaves the other groups' rows as they
\* were; toggling it again restores the collapsed-set, the rows, their
\* visibility and offsets.
C5_ToggleCollapsesAndRestores ==
    rendered =>
        \A g \in 1..Len(chart.data.groups) :
            ~GroupCollapsed(g, chart.collapsedGroups) =>
                /\ CollapsesGroup(g, ToggleOnce(g))
                /\ RestoresLayout(ToggleTwice(g))

\* a group with tasks was collapsed by a click and the other group is collapsed
C5_Witness ==
    /\ rendered
    /\ Len(chart.data.groups) = 2
    /\ TasksOf(1) = 2 /\ TasksOf(2) = 1
    /\ chart.collapsedGroups = {chart.data.groups[2].id}
    /\ dom.svg.height = 4 * ROW_HEIGHT

VisibleRows == {i \in 1..Len(chart.rows) : chart.rows[i].visible}

\* C6: after a render the visible rows sit at 0, ROW_HEIGHT, 2 x ROW_HEIGHT,
\* ... in flattened order, hidden rows take no vertical space, and the SVG
\* is (number of visible rows) x ROW_HEIGHT high.
C6_VisibleRowOffsets ==
    rendered =>
        /\ \A i \in VisibleRows : chart.rows[i].visibleY = TopOfRow(i)
        /\ \A i \in (1..Len(chart.rows)) \ VisibleRows : chart.rows[i].visibleY = Undefined
        /\ \A i, j \in VisibleRows : i # j => chart.rows[i].visibleY # chart.rows[j].visibleY
        /\ {chart.rows[i].visibleY : i \in VisibleRows}
               = {k * ROW_HEIGHT : k \in 0..(Cardinality(VisibleRows) - 1)}
        /\ dom.svg.height = Cardinality(VisibleRows) * ROW_HEIGHT
        /\ [k \in 1..Len(dom.svg.separators) |-> dom.svg.separators[k]]
               = [k \in 1..Cardinality(VisibleRows) |-> k * ROW_HEIGHT]

\* a hidden row lies between visible ones
C6_Witness ==
    /\ rendered
    /\ \E i, j, k \in 1..Len(chart.rows) :
          /\ i < j /\ j < k
          /\ chart.rows[i].visible /\ ~chart.rows[j].visible /\ chart.rows[k].visible
          /\ chart.rows[k].visibleY = ROW_HEIGHT

\* the task at position p is shown: its group is not collapsed
Shown(p) == ~GroupCollapsed(p[1], chart.collapsedGroups)

\* the k-th dependency of the task at p gets an arrow
Wanted(p, k) ==
    /\ Shown(p)
    /\ \E q \in TaskPositions : TaskAt(q).id = TaskAt(p).dependsOn[k] /\ Shown(q)

Dependencies == UNION { { <<p, k>> : k \in 1..Len(TaskAt(p).dependsOn) } : p \in TaskPositions }

\* C7: the arrows drawn are exactly the pairs (d, t) with d in t.dependsOn,
\* t shown and d the id of a shown task; unknown and hidden dependencies
\* are skipped while every visible row still gets its bar.
C7_ArrowsDrawn ==
    rendered =>
        /\ {<<a.from, a.to>> : a \in Arrows}
               = {<<TaskAt(e[1]).dependsOn[e[2]], TaskAt(e[1]).id>> :
                      e \in {f \in Dependencies : Wanted(f[1], f[2])}}
        /\ Len(dom.svg.arrows) = Cardinality({e \in Dependencies : Wanted(e[1], e[2])})
        /\ Len(dom.svg.bars) = Cardinality(VisibleRows)

\* an arrow is drawn although a shown task also depends on an unknown id and
\* on a task hidden by a collapsed group
C7_Witness ==
    /\ rendered
    /\ Len(dom.svg.arrows) > 0
    /\ \E e \in Dependencies :
          /\ Shown(e[1])
          /\ TaskAt(e[1]).dependsOn[e[2]] = UnknownId
    /\ \E e \in Dependencies :
          /\ Shown(e[1])
          /\ \E q \in TaskPositions :
                TaskAt(q).id = TaskAt(e[1]).dependsOn[e[2]] /\ ~Shown(q)

\* ------------------------------------------------------------------------
\* The time axis

\* a date is the number of its day; day 0 was a Thursday
IsMonday(day) == (day + 3) % 7 = 0

MondayOnOrBefore(day) == CHOOSE m \in (day - 6)..day : IsMonday(m)

FirstOfMonth(day) == day - getDate(day) + 1

IsQuarterStart(day) == getDate(day) = 1 /\ getMonth(day) \in {0, 3, 6, 9}

WeekWide == chart.svgWidth * 7 >= MinTickPx * TotalProjectDays

MonthWide == chart.svgWidth * 30 >= MinTickPx * TotalProjectDays

WeeklyDates ==
    {d \in MondayOnOrBefore(chart.projectStart)..chart.projectEnd :
        (d - MondayOnOrBefore(chart.projectStart)) % 7 = 0}

MonthlyDates ==
    {d \in FirstOfMonth(chart.projectStart)..chart.projectEnd : getDate(d) = 1}

QuarterlyDates == {d \in chart.projectStart..chart.projectEnd : IsQuarterStart(d)}

TierDates ==
    IF WeekWide THEN WeeklyDates
    ELSE IF MonthWide THEN MonthlyDates
    ELSE IF QuarterlyDates = {} THEN {chart.projectStart}
    ELSE QuarterlyDates

StrictlyIncreasing(ticks) ==
    \A i \in 1..(Len(ticks) - 1) : ticks[i].date < ticks[i + 1].date

TicksOfTier(ticks) ==
    /\ {ticks[i].date : i \in 1..Len(ticks)} = TierDates
    /\ StrictlyIncreasing(ticks)
    /\ \A i \in 1..Len(ticks) : ticks[i].date <= chart.projectEnd
    /\ Len(dom.header.ticks) = Len(ticks)

\* C9: getTickDates gives the weekly dates when dayWidth x 7 >= 40, else the
\* monthly dates when dayWidth x 30 >= 40, else the quarter starts within
\* the project or, when there is none, the single tick at projectStart; the
\* dates are strictly increasing and none is after projectEnd.
C9_TickTiers == rendered => TicksOfTier(getTickDates(chart))

\* the quarterly tier with no quarter start in the project: the fallback tick
C9_Witness ==
    /\ rendered
    /\ ~WeekWide /\ ~MonthWide
    /\ QuarterlyDates = {}
    /\ chart.svgWidth > 0
    /\ Len(dom.header.ticks) = 1

\* C10: getTickDates returns at least one tick for every project and day
\* width, a zero-length project, no groups and a zero or negative day
\* width included.
C10_TicksNonEmpty ==
    /\ Len(getTickDates(chart)) >= 1
    /\ rendered => Len(dom.header.ticks) >= 1 /\ Len(dom.svg.grid) >= 1

\* a zero-length project without groups, rendered at a negative width
C10_Witness ==
    /\ rendered
    /\ chart.projectStart = chart.projectEnd
    /\ Len(chart.data.groups) = 0
    /\ chart.svgWidth < 0
    /\ Len(dom.header.ticks) = 1

\* the x positions of the ticks of the header and of the grid lines
HeaderXs == [i \in 1..Len(dom.header.ticks) |-> dom.header.ticks[i].x]

\* consecutive positions are at least MinTickPx apart
WellSpaced(xs) == \A i \in 1..(Len(xs) - 1) : xs[i + 1] - xs[i] >= Pixels(MinTickPx)

\* C11: in the header and in the grid any two consecutive ticks are drawn
\* at distinct x positions at least 40 px apart, in every tier.  Stated for
\* the positive widths only.
C11_TicksWellSpaced ==
    rendered /\ chart.svgWidth > 0 =>
        /\ WellSpaced(HeaderXs)
        /\ WellSpaced(dom.svg.grid)

\* ---------------------------------------------------------------------------
\* The page: loadGanttProject, the window's resize listeners and their timers
\* ---------------------------------------------------------------------------

\* the 150 ms of the debounce, in steps of 50 ms
Delay == 3

\* every render adds scroll listeners: the renders of a run are counted
MaxRenders == 3

RangeB == <<Date(2024, 3, 1), Date(2024, 4, 30)>>

ScheduleA == RowSchedule(<<1, 1>>, "chain")

ScheduleB == Schedule(RangeB, << Group(1, RangeB, << Task(<<1, 1>>, RangeB, 0, 9, << >>) >>) >>)

PageSchedules == {ScheduleA, ScheduleB}

\* available widths 310 and 620
PageViewports == { <<310, 870>>, <<0, 1180>> }

\* the charts in the order of their loads; the last one is chart
Loaded == Append(stale, chart)

ChartNo(n) == Loaded[n]

\* clearTimeout(resizeTimer) of chart n: the timer its variable names goes,
\* if it is still pending
clearTimeout(ts, n) == SelectSeq(ts, LAMBDA t : ~(t.of = n /\ t.latest))

\* resizeTimer = setTimeout(..., 150) of chart n
setTimeout(ts, n) ==
    Append([i \in 1..Len(ts) |->
               IF ts[i].of = n THEN [ts[i] EXCEPT !.latest = FALSE] ELSE ts[i]],
           [of |-> n, due |-> Delay, latest |-> TRUE])

\* the resize listener without its clearTimeout
onResizeKeeping(ts, n) == setTimeout(ts, n)

\* the resize listener of chart n
onResize(ts, n) == setTimeout(clearTimeout(ts, n), n)

\* a resize event runs the listeners in the order they were added
RECURSIVE dispatchResize(_, _, _)
dispatchResize(ts, n, count) ==
    IF n > count THEN ts ELSE dispatchResize(onResize(ts, n), n + 1, count)

\* chart n has rendered: its elements replace the display and setupScrollSync
\* has added its listeners
RenderBy(n, r) ==
    /\ handlers < MaxRenders
    /\ handlers' = handlers + 1
    /\ dom' = r.dom
    /\ rendered' = TRUE
    /\ owner' = n
    /\ chart' = IF n = Len(stale) + 1 THEN r.this ELSE chart
    /\ stale' = IF n = Len(stale) + 1 THEN stale ELSE [stale EXCEPT ![n] = r.this]

\* the number of the chart of the next load; before the first load the page
\* shows its empty state and chart is not in use
NewChartNo == IF rendered THEN Len(stale) + 2 ELSE 1

\* loadGanttProject(data); the chart loaded before stays referenced by its
\* resize listener
LoadGanttProject(data) ==
    /\ handlers < MaxRenders
    /\ handlers' = handlers + 1
    /\ stale' = IF rendered THEN Append(stale, chart) ELSE stale
    /\ owner' = NewChartNo
    /\ Show(render(constructor(data), viewport[1], viewport[2]))
    /\ lastOp' = [op |-> "load", of |-> NewChartNo, group |-> 0, cancelled |-> 0]
    /\ UNCHANGED <<viewport, timers, idle>>

\* the window is resized to the viewport v
Resize(v) ==
    /\ viewport' = v
    /\ timers' = dispatchResize(timers, 1, Len(Loaded))
    /\ idle' = 0
    /\ lastOp' = [op |-> "resize", of |-> 0, group |-> 0,
                  cancelled |-> Len(timers) + Len(Loaded)
                                  - Len(dispatchResize(timers, 1, Len(Loaded)))]
    /\ UNCHANGED <<chart, dom, rendered, stale, owner, handlers>>

\* 50 ms pass with no timer due
Tick ==
    /\ idle < Delay \/ timers # << >>
    /\ \A i \in 1..Len(timers) : timers[i].due > 0
    /\ timers' = [i \in 1..Len(timers) |-> [timers[i] EXCEPT !.due = @ - 1]]
    /\ idle' = Min(idle + 1, Delay)
    /\ UNCHANGED <<chart, dom, rendered, stale, owner, handlers, viewport, lastOp>>

\* timers[i] is the next timer to run: due, and set before the others due
NextDue(i) == timers[i].due = 0 /\ \A j \in 1..(i - 1) : timers[j].due > 0

\* the callback of a timer: chart.render() of the chart that set it
FireTimer ==
    \E i \in 1..Len(timers) :
        /\ NextDue(i)
        /\ timers' = SubSeq(timers, 1, i - 1) \o SubSeq(timers, i + 1, Len(timers))
        /\ RenderBy(timers[i].of, render(ChartNo(timers[i].of), viewport[1], viewport[2]))
        /\ lastOp' = [op |-> "fire", of |-> timers[i].of, group |-> 0, cancelled |-> 0]
        /\ UNCHANGED <<viewport, idle>>

\* a click on a displayed phase row: the listener of buildLeftRow belongs to
\* the chart that built the row
Click(groupId) ==
    /\ \E i \in 1..Len(dom.leftRows) :
          dom.leftRows[i].click /\ dom.leftRows[i].rowId = groupId
    /\ RenderBy(owner, toggleGroup(ChartNo(owner), groupId, viewport[1], viewport[2]))
    /\ lastOp' = [op |-> "toggle", of |-> owner, group |-> groupId, cancelled |-> 0]
    /\ UNCHANGED <<viewport, timers, idle>>

\* the groups whose phase row is displayed
DisplayedGroupIds ==
    {dom.leftRows[i].rowId : i \in {j \in 1..Len(dom.leftRows) : dom.leftRows[j].click}}

InitPage ==
    /\ \E data \in PageSchedules, v \in PageViewports :
          /\ viewport = v
          /\ chart = render(constructor(data), v[1], v[2]).this
          /\ dom = render(constructor(data), v[1], v[2]).dom
    /\ rendered = TRUE
    /\ stale = << >>
    /\ owner = 1
    /\ timers = << >>
    /\ idle = Delay
    /\ handlers = 1
    /\ scroll = NoScroll
    /\ scrollQueue = << >>
    /\ lastOp = [op |-> "load", of |-> 1, group |-> 0, cancelled |-> 0]
    /\ Elsewhere

NextPage ==
    \/ /\ \E data \in PageSchedules : LoadGanttProject(data)
       /\ UNCHANGED <<scroll, scrollQueue, otherVars>>
    \/ /\ \E v \in PageViewports : Resize(v)
       /\ UNCHANGED <<scroll, scrollQueue, otherVars>>
    \/ /\ Tick
       /\ UNCHANGED <<scroll, scrollQueue, otherVars>>
    \/ /\ FireTimer
       /\ UNCHANGED <<scroll, scrollQueue, otherVars>>
    \/ /\ \E g \in DisplayedGroupIds : Click(g)
       /\ UNCHANGED <<scroll, scrollQueue, otherVars>>

SpecPage == InitPage /\ [][NextPage]_vars

\* the collapsed-set of the n-th loaded chart
Collapsed(n) == ChartNo(n).collapsedGroups

\* the groups that are in one of the sets only
Changed(a, b) == (a \ b) \cup (b \ a)

\* the step is a click on a phase row
Toggled == handlers' # handlers /\ lastOp'.op = "toggle"

\* the collapsed-sets of the charts loaded so far are as they were, except
\* for the groups of except in chart n
CollapsedKept(n, except) ==
    \A m \in 1..Len(Loaded) :
        Changed(Loaded'[m].collapsedGroups, Loaded[m].collapsedGroups)
            = IF m = n THEN except ELSE {}

\* C12: a collapsed-set changes through toggleGroup only: a render by a load
\* or by the debounced resize leaves every collapsed-set as it is, a click on
\* the phase row of g changes the membership of g in the displayed chart's
\* set and nothing else, and a newly loaded chart starts with no group
\* collapsed.
C12_CollapsedSetFrame ==
    [][ /\ IF Toggled
           THEN CollapsedKept(lastOp'.of, {lastOp'.group})
           ELSE CollapsedKept(0, {})
        /\ Len(Loaded') > Len(Loaded) => chart'.collapsedGroups = {} ]_vars

\* a chart with a group collapsed has been rendered by its resize timer
C12_Witness ==
    /\ lastOp.op = "fire"
    /\ Collapsed(lastOp.of) # {}

\* ---------------------------------------------------------------------------
\* Scroll synchronisation (setupScrollSync)
\*
\* A change of an element's scroll offset, by the user or by an assignment
\* to scrollTop, makes the element a pending scroll event target unless it
\* is one already; the events are dispatched later, one target at a time,
\* after the script that made the change has run to its end.  An assignment
\* of the offset an element already has changes nothing and queues nothing.
\* The left list and the timeline body have the same range of offsets, and
\* so have the body and the header; a render leaves the offsets alone.
\* ---------------------------------------------------------------------------

\* the largest scroll offsets, in rows and in columns
MaxScrollTop == 2

MaxScrollLeft == 1

\* the element becomes a pending scroll event target
Enqueue(queue, target, cause) ==
    IF \E i \in 1..Len(queue) : queue[i].target = target
    THEN [i \in 1..Len(queue) |->
             IF queue[i].target = target
             THEN [queue[i] EXCEPT !.cause = @ \cup {cause}]
             ELSE queue[i]]
    ELSE Append(queue, [target |-> target, cause |-> {cause}])

\* rightBody.scrollTop = leftRows.scrollTop
mirrorToBody(st) ==
    [scroll   |-> [st.scroll EXCEPT !.bodyTop = st.scroll.leftTop],
     queue    |-> IF st.scroll.bodyTop # st.scroll.leftTop
                  THEN Enqueue(st.queue, "body", "mirror")
                  ELSE st.queue,
     assigned |-> st.assigned + 1]

\* leftRows.scrollTop = rightBody.scrollTop; rightHeader.scrollLeft =
\* rightBody.scrollLeft (the header has no scroll listener)
mirrorToLeft(st) ==
    [scroll   |-> [st.scroll EXCEPT !.leftTop = st.scroll.bodyTop,
                                    !.headerLeft = st.scroll.bodyLeft],
     queue    |-> IF st.scroll.leftTop # st.scroll.bodyTop
                  THEN Enqueue(st.queue, "left", "mirror")
                  ELSE st.queue,
     assigned |-> st.assigned + 2]

\* one scroll listener of setupScrollSync; syncing is the flag of its closure
onScroll(st, target, syncing) ==
    IF syncing
    THEN st
    ELSE IF target = "left" THEN mirrorToBody(st) ELSE mirrorToLeft(st)

\* the event runs the k listeners that the renders have added to the target;
\* each has set its flag back to false before the next one starts
RECURSIVE dispatchScroll(_, _, _)
dispatchScroll(st, target, k) ==
    IF k = 0 THEN st ELSE dispatchScroll(onScroll(st, target, FALSE), target, k - 1)

\* the state of the page after the scroll event st has been handled
Handled(st, event) ==
    /\ scroll' = st.scroll
    /\ scrollQueue' = st.queue
    /\ lastOp' = [op |-> "handle", cause |-> event.cause, assigned |-> st.assigned]

\* the user scrolls the left list
UserScrollLeft(top) ==
    /\ top # scroll.leftTop
    /\ scroll' = [scroll EXCEPT !.leftTop = top]
    /\ scrollQueue' = Enqueue(scrollQueue, "left", "user")
    /\ lastOp' = [op |-> "scroll", cause |-> {"user"}, assigned |-> 0]
    /\ UNCHANGED <<ganttVars, stale, owner, viewport, timers, idle, handlers>>

\* the user scrolls the timeline body
UserScrollBody(top, left) ==
    /\ <<top, left>> # <<scroll.bodyTop, scroll.bodyLeft>>
    /\ scroll' = [scroll EXCEPT !.bodyTop = top, !.bodyLeft = left]
    /\ scrollQueue' = Enqueue(scrollQueue, "body", "user")
    /\ lastOp' = [op |-> "scroll", cause |-> {"user"}, assigned |-> 0]
    /\ UNCHANGED <<ganttVars, stale, owner, viewport, timers, idle, handlers>>

\* the oldest pending scroll event is dispatched
HandleScroll ==
    /\ scrollQueue # << >>
    /\ Handled(dispatchScroll([scroll |-> scroll, queue |-> Tail(scrollQueue), assigned |-> 0],
                              Head(scrollQueue).target, handlers),
               Head(scrollQueue))
    /\ UNCHANGED <<ganttVars, stale, owner, viewport, timers, idle, handlers>>

NextScroll ==
    \/ /\ \E top \in 0..MaxScrollTop : UserScrollLeft(top)
       /\ UNCHANGED otherVars
    \/ /\ \E top \in 0..MaxScrollTop, left \in 0..MaxScrollLeft : UserScrollBody(top, left)
       /\ UNCHANGED otherVars
    \/ /\ HandleScroll
       /\ UNCHANGED otherVars
    \/ /\ \E g \in DisplayedGroupIds : Click(g)
       /\ UNCHANGED <<scroll, scrollQueue, otherVars>>

SpecScroll == InitPage /\ [][NextScroll]_vars

\* the three regions show the same rows and the same columns
Synced == scroll.leftTop = scroll.bodyTop /\ scroll.headerLeft = scroll.bodyLeft

\* with no scroll event pending the regions are in step
QuiescentSynced == scrollQueue = << >> => Synced

\* C13: once the queued scroll events have been handled the left list and
\* the timeline body have the same scrollTop and the header has the body's
\* scrollLeft; and a scroll event caused by a mirroring assignment is
\* suppressed by the flag: handling it performs no further mirroring
\* assignment.
C13_ScrollSyncLoopFree ==
    /\ QuiescentSynced
    /\ lastOp.op = "handle" /\ lastOp.cause = {"mirror"} => lastOp.assigned = 0

\* the pending timers of the n-th loaded chart
TimersOf(n) == {i \in 1..Len(timers) : timers[i].of = n}

\* the width the timeline gets in the present window
AvailableNow == availableWidthOf(viewport[1], viewport[2])

Fresh(this) == [constructor(this.data) EXCEPT !.collapsedGroups = this.collapsedGroups]

\* windows that leave the timeline 310 px, as <<310, 870>> does
SameWidthViewports == { <<0, 870>>, <<310, 0>> }

\* what a render pass at the viewport v leaves: the chart's fields and the
\* display (ticks, rows, bars, arrow paths)
Pass(this, v) == render(this, v[1], v[2])

\* r is what every pass at v gives: a second pass after it, a pass of a new
\* chart, a pass in a window of the same available width
Repeats(this, v, r) ==
    /\ Pass(r.this, v) = r
    /\ Pass(Fresh(this), v) = r
    /\ \A w \in SameWidthViewports : Pass(this, w) = r

\* C15: rendering is a function of the schedule, the collapsed-set and the
\* available width.  Whatever renders and toggles came before, a second
\* render pass with the same inputs gives the same ticks, rows, bars and
\* arrow paths as the first, both give what a chart newly made for the same
\* schedule and collapsed-set gives, and windows with the same available
\* width give the same.
C15_RenderDeterministic == Repeats(chart, <<310, 870>>, Pass(chart, <<310, 870>>))

\* a chart with arrows that was rendered at another width and has a group
\* collapsed since
C15_Witness ==
    /\ rendered
    /\ chart.svgWidth # 310
    /\ chart.collapsedGroups # {}
    /\ Len(dom.svg.arrows) > 0
    /\ Pass(chart, <<310, 870>>).dom # dom

\* C16: the scroll listeners attached to the left list and to the timeline
\* body after any number of render passes of a chart, by toggles and by
\* resizes, are the ones attached by its first render.
C16_HandlersNotAccumulated == Len(stale) = 0 => handlers = 1

\* ---------------------------------------------------------------------------
\* daysBetween and dateToX applied to local midnights
\* ---------------------------------------------------------------------------

\* days on both sides of the year's end and of the two changes of the clock
CalcDays ==
    { Date(2023, 12, 31), Date(2024, 1, 1), Date(2024, 3, 31), Date(2024, 4, 1),
      Date(2024, 7, 10), Date(2024, 10, 31), Date(2024, 11, 1), Date(2025, 1, 1) }

\* dayWidth: 10 px, 1 px, 310 px over 234 days
CalcWidths == { [num |-> 310, den |-> 31], [num |-> 1, den |-> 1], [num |-> 310, den |-> 234] }

\* daysBetween in both directions and dateToX of projectStart a and of b
Applied(a, b, w) ==
    [a |-> a, b |-> b, w |-> w, applied |-> TRUE,
     days |-> daysBetween(a, b), back |-> daysBetween(b, a),
     origin |-> dateToX(a, a, w), x |-> dateToX(b, a, w)]

InitDates ==
    /\ \E da \in CalcDays, db \in CalcDays, w \in CalcWidths :
          calc = [a |-> parseDate(da), b |-> parseDate(db), w |-> w, applied |-> FALSE,
                  days |-> 0, back |-> 0, origin |-> 0, x |-> 0]
    /\ srv = NoRequest
    /\ chat = NoChat
    /\ chart = constructor(Schedule(ScenarioRange, << >>))
    /\ dom = EmptyDom
    /\ rendered = FALSE
    /\ PageAtRest

Apply ==
    /\ ~calc.applied
    /\ calc' = Applied(calc.a, calc.b, calc.w)

NextDates == Apply /\ UNCHANGED <<ganttVars, pageVars, srv, chat>>

SpecDates == InitDates /\ [][NextDates]_vars

\* the difference of two local midnights is whole days give or take the hour
\* of a change of the clock
WholeDaysWithDrift(a, b) ==
    \E n \in -400..400, drift \in -1..1 : getTime(b) - getTime(a) = n * MsPerDay + drift

\* C17: for local midnights a and b, daysBetween(a, b) is the number of
\* calendar days from a to b, not negative when a is not after b, and the
\* negative of daysBetween(b, a); dateToX of projectStart itself is 0 for
\* every dayWidth, and a date before projectStart gets a negative x, the
\* days times dayWidth, with no clamping.
C17_DaysBetween ==
    calc.applied /\ WholeDaysWithDrift(calc.a, calc.b) =>
        /\ calc.days = calc.b - calc.a
        /\ calc.a <= calc.b => calc.days >= 0
        /\ calc.days = -calc.back
        /\ calc.origin = 0
        /\ calc.x = (calc.b - calc.a) * calc.w.num
        /\ calc.b < calc.a => calc.x < 0

\* a date before projectStart, across a change of the clock
C17_Witness ==
    /\ calc.applied
    /\ calc.b < calc.a
    /\ (getTime(calc.b) - getTime(calc.a)) % MsPerDay # 0
    /\ calc.x < 0

\* the display is what the chart gives at the width of its last render
Displays(this) == dom = Pass(this, <<this.svgWidth, this.svgWidth + LeftPanelWidth>>).dom

\* C18: the last load wins.  Whenever no resize timer is pending, the display
\* is the chart of the last loadGanttProject rendered with that chart's
\* collapsed-set, whatever listeners and timers the earlier charts have left;
\* and a click on a displayed phase row toggles a group of the chart whose
\* rows are displayed.
C18_LastLoadWins ==
    /\ timers = << >> => owner = Len(Loaded) /\ Displays(chart)
    /\ lastOp.op = "toggle" => lastOp.of = owner /\ Displays(ChartNo(owner))

\* ---------------------------------------------------------------------------
\* POST /api/chat (server.ts): a request, its 30 s timeout and its stream
\*
\* The log of a request lists the calls on its res in their order: the events sent and
\* "res.end".  The stream emits Content events and then a single End or
\* Error; it knows nothing of the timeout.
\* ---------------------------------------------------------------------------

\* the Content events of a stream
MaxContents == 2

\* sendEvent(data): res.write
sendEvent(s, event) == [s EXCEPT !.log = Append(@, event)]

\* res.end()
resEnd(s) == [s EXCEPT !.log = Append(@, "res.end")]

\* clearTimeout(timeout): a timeout that has run stays run
clearTimer(s) == [s EXCEPT !.timeout = IF @ = "pending" THEN "cleared" ELSE @]

\* the requests being served, each with its own res, timeout and stream
MaxRequests == 2

Unreceived == [phase |-> "none", timeout |-> "none", log |-> << >>]

\* the request r is read: 400 without sessionId or message, else the SSE pipe
\* is opened, the timeout is set and chat.prompt(message).stream() is awaited
Receive(r, body) ==
    /\ srv[r].phase = "none"
    /\ srv' = [srv EXCEPT ![r] =
                 IF body = "incomplete"
                 THEN [phase |-> "refused", timeout |-> "none", log |-> <<"400">>]
                 ELSE [phase |-> "prompting", timeout |-> "pending", log |-> <<"connected">>]]

\* the callback of the 30 s timeout
OnTimeout(r) ==
    /\ srv[r].timeout = "pending"
    /\ srv' = [srv EXCEPT ![r] = resEnd(sendEvent([@ EXCEPT !.timeout = "run"], "error: timeout"))]

\* the awaited stream arrives and the three listeners are attached
StreamOpens(r) ==
    /\ srv[r].phase = "prompting"
    /\ srv' = [srv EXCEPT ![r].phase = "streaming"]

\* the await rejects: the catch block
PromptRejects(r) ==
    /\ srv[r].phase = "prompting"
    /\ srv' = [srv EXCEPT ![r] =
                 resEnd(sendEvent(clearTimer([@ EXCEPT !.phase = "failed"]), "error: catch"))]

\* TLLMEvent.Content
OnContent(r) ==
    /\ srv[r].phase = "streaming"
    /\ Len(SelectSeq(srv[r].log, LAMBDA e : e = "content")) < MaxContents
    /\ srv' = [srv EXCEPT ![r] = sendEvent(@, "content")]

\* TLLMEvent.End
OnEnd(r) ==
    /\ srv[r].phase = "streaming"
    /\ srv' = [srv EXCEPT ![r] =
                 resEnd(sendEvent(clearTimer([@ EXCEPT !.phase = "ended"]), "end"))]

\* TLLMEvent.Error
OnError(r) ==
    /\ srv[r].phase = "streaming"
    /\ srv' = [srv EXCEPT ![r] =
                 resEnd(sendEvent(clearTimer([@ EXCEPT !.phase = "ended"]), "error: stream"))]

InitServer ==
    /\ srv = [r \in 1..MaxRequests |-> Unreceived]
    /\ calc = NoCalc
    /\ chat = NoChat
    /\ chart = constructor(Schedule(ScenarioRange, << >>))
    /\ dom = EmptyDom
    /\ rendered = FALSE
    /\ PageAtRest

NextServer ==
    \/ /\ \E r \in 1..MaxRequests, body \in {"incomplete", "complete"} : Receive(r, body)
       /\ UNCHANGED <<ganttVars, pageVars, calc, chat>>
    \/ /\ \E r \in 1..MaxRequests : OnTimeout(r)
       /\ UNCHANGED <<ganttVars, pageVars, calc, chat>>
    \/ /\ \E r \in 1..MaxRequests : StreamOpens(r)
       /\ UNCHANGED <<ganttVars, pageVars, calc, chat>>
    \/ /\ \E r \in 1..MaxRequests : PromptRejects(r)
       /\ UNCHANGED <<ganttVars, pageVars, calc, chat>>
    \/ /\ \E r \in 1..MaxRequests : OnContent(r)
       /\ UNCHANGED <<ganttVars, pageVars, calc, chat>>
    \/ /\ \E r \in 1..MaxRequests : OnEnd(r)
       /\ UNCHANGED <<ganttVars, pageVars, calc, chat>>
    \/ /\ \E r \in 1..MaxRequests : OnError(r)
       /\ UNCHANGED <<ganttVars, pageVars, calc, chat>>

SpecServer == InitServer /\ [][NextServer]_vars

Terminal == {"end", "error: timeout", "error: stream", "error: catch"}

\* the places of the log with an entry of the set
Places(log, entries) == {i \in 1..Len(log) : log[i] \in entries}

\* the response of the request r is complete: nothing more will be called
Settled(r) == srv[r].phase \in {"ended", "failed"} /\ srv[r].timeout # "pending"

\* C19: in every interleaving of the timeout with the stream's callbacks and
\* with a rejected prompt, a response gets one terminal event ('end' or
\* 'error') and no second one, res.end() is called once, directly after the
\* terminal event, nothing is written after it, and the timeout's error is
\* sent only if the stream has not ended before.
C19_OneTerminalEvent ==
    \A r \in 1..MaxRequests :
        /\ Cardinality(Places(srv[r].log, Terminal)) <= 1
        /\ Cardinality(Places(srv[r].log, {"res.end"})) <= 1
        /\ Settled(r) => /\ Cardinality(Places(srv[r].log, Terminal)) = 1
                         /\ srv[r].log[Len(srv[r].log)] = "res.end"
                         /\ srv[r].log[Len(srv[r].log) - 1] \in Terminal
        /\ \A i \in Places(srv[r].log, {"res.end"}) : i = Len(srv[r].log)
        /\ \A i \in Places(srv[r].log, {"error: timeout"}) :
               \A j \in 1..(i - 1) : srv[r].log[j] \notin Terminal

\* ---------------------------------------------------------------------------
\* The chat panel (chat.js) and the Load Project button (app.js)
\*
\* The text of a response is a sequence of pieces: plain text or a fenced
\* gantt-json block with its body.  A plan is named by a letter; the object
\* a body parses to is the schedule of that name.
\* ---------------------------------------------------------------------------

\* the messages sent and the pieces of a response
MaxMessages == 2

MaxPieces == 2

Text == [fence |-> FALSE, body |-> "text"]

Block(body) == [fence |-> TRUE, body |-> body]

\* two plans, the JSON value null, an object cut short
Bodies == {"{plan A}", "{plan B}", "null", "{plan A"}

Pieces == {Text} \cup {Block(body) : body \in Bodies}

\* JSON.parse(body.trim()): the value, or the SyntaxError
JSONparse(body) ==
    CASE body = "{plan A}" -> [ok |-> TRUE, value |-> "A"]
      [] body = "{plan B}" -> [ok |-> TRUE, value |-> "B"]
      [] body = "null"     -> [ok |-> TRUE, value |-> "null"]
      [] OTHER             -> [ok |-> FALSE, value |-> "null"]

\* the schedule a plan stands for
PlanSchedule(plan) == IF plan = "A" THEN ScheduleA ELSE ScheduleB

\* the loop over the matches of the gantt-json pattern, extractedJson so far
RECURSIVE extractFrom(_, _, _)
extractFrom(fullText, i, extractedJson) ==
    IF i > Len(fullText)
    THEN extractedJson
    ELSE extractFrom(fullText, i + 1,
                     IF fullText[i].fence /\ JSONparse(fullText[i].body).ok
                     THEN JSONparse(fullText[i].body).value
                     ELSE extractedJson)

\* processAgentResponse keeping the first block that parses
processFirstBlock(fullText) ==
    IF \E i \in 1..Len(fullText) : fullText[i].fence /\ JSONparse(fullText[i].body).ok
    THEN JSONparse(fullText[CHOOSE i \in 1..Len(fullText) :
                       /\ fullText[i].fence /\ JSONparse(fullText[i].body).ok
                       /\ \A j \in 1..(i - 1) :
                             ~(fullText[j].fence /\ JSONparse(fullText[j].body).ok)].body).value
    ELSE "null"

\* processAgentResponse(fullText).ganttData
processAgentResponse(fullText) == extractFrom(fullText, 1, "null")

NoPlan == [plan |-> "null", from |-> 0]

\* sendMessage(message) up to the fetch
SendMessage ==
    /\ ~chat.isStreaming
    /\ chat.sent < MaxMessages
    /\ chat' = [chat EXCEPT !.isStreaming = TRUE, !.sent = @ + 1, !.fullResponse = << >>,
                            !.ended = FALSE, !.error = FALSE]

\* an event of type 'content'
EvContent(piece) ==
    /\ chat.isStreaming
    /\ Len(chat.fullResponse) < MaxPieces
    /\ chat' = [chat EXCEPT !.fullResponse = Append(@, piece)]

\* the 'end' event with ganttData as processAgentResponse gave it
Ended(ganttData) ==
    chat' = IF ganttData # "null"
            THEN [chat EXCEPT !.ended = TRUE, !.button = TRUE,
                              !.pending = [plan |-> ganttData, from |-> chat.sent]]
            ELSE [chat EXCEPT !.ended = TRUE]

\* an event of type 'end'
EvEnd ==
    /\ chat.isStreaming
    /\ ~chat.ended
    /\ Ended(processAgentResponse(chat.fullResponse))

\* an event of type 'error': a message is appended
EvError ==
    /\ chat.isStreaming
    /\ ~chat.error
    /\ chat' = [chat EXCEPT !.error = TRUE]

\* the reader is done, or fetch or read threw: the finally block
StreamDone ==
    /\ chat.isStreaming
    /\ chat' = [chat EXCEPT !.isStreaming = FALSE]

\* a click on the Load Project button (app.js): getAndClearPendingData,
\* hideLoadProjectButton, loadGanttProject
ClickLoadProject ==
    IF chat.pending.plan = "null"
    THEN UNCHANGED <<chat, ganttVars, stale, owner, viewport, timers, idle, handlers, lastOp>>
    ELSE /\ chat' = [chat EXCEPT !.pending = NoPlan, !.button = FALSE,
                                 !.loaded = Append(@, chat.pending)]
         /\ LoadGanttProject(PlanSchedule(chat.pending.plan))

\* the Load Project area as the page's markup and style sheet leave it
ButtonAtLoad == FALSE

InitChat ==
    /\ chat = [isStreaming |-> FALSE, sent |-> 0, fullResponse |-> << >>, ended |-> FALSE,
               error |-> FALSE, pending |-> NoPlan, button |-> ButtonAtLoad, loaded |-> << >>]
    /\ calc = NoCalc
    /\ srv = NoRequest
    /\ chart = constructor(Schedule(ScenarioRange, << >>))
    /\ dom = EmptyDom
    /\ rendered = FALSE
    /\ stale = << >>
    /\ owner = 0
    /\ viewport = <<310, 870>>
    /\ timers = << >>
    /\ idle = Delay
    /\ handlers = 0
    /\ scroll = NoScroll
    /\ scrollQueue = << >>
    /\ lastOp = [op |-> "none", of |-> 0, group |-> 0, cancelled |-> 0]

NextChat ==
    \/ SendMessage /\ UNCHANGED <<ganttVars, pageVars, calc, srv>>
    \/ /\ \E piece \in Pieces : EvContent(piece)
       /\ UNCHANGED <<ganttVars, pageVars, calc, srv>>
    \/ EvEnd /\ UNCHANGED <<ganttVars, pageVars, calc, srv>>
    \/ EvError /\ UNCHANGED <<ganttVars, pageVars, calc, srv>>
    \/ StreamDone /\ UNCHANGED <<ganttVars, pageVars, calc, srv>>
    \/ ClickLoadProject /\ UNCHANGED <<scroll, scrollQueue, calc, srv>>

SpecChat == InitChat /\ [][NextChat]_vars

\* the places of the gantt-json blocks of a text whose body parses as JSON
Parseable(fullText) ==
    {i \in 1..Len(fullText) : fullText[i].fence /\ JSONparse(fullText[i].body).ok}

\* the value of the last of them
LastParsed(fullText) ==
    JSONparse(fullText[CHOOSE i \in Parseable(fullText) :
                          \A j \in Parseable(fullText) : j <= i].body).value

\* the step handles the 'end' event of the response
EndProcessed == chat'.ended /\ ~chat.ended

\* the step hands a plan to loadGanttProject
PlanLoaded == chat'.loaded # chat.loaded

====
